---- MODULE Spec2Model ----
(***************************************************************************)
(* A model of streamlit_app.py: one run of main() over the two Excel       *)
(* files.  load_data -> calculate_monthly_data -> basic metrics -> the     *)
(* tabs (overview, usage percentage, detail, forecast, recommendation).    *)
(*                                                                         *)
(* Numbers are exact: quantities are naturals, means are fractions         *)
(* [num, den], the coefficient of variation is kept as its square and the  *)
(* Pearson correlation as covariance over the root of a product, so that   *)
(* the comparisons of the code (cv < 15, corr > 0.8) are decided without   *)
(* rounding.  A float NaN is the field nan = TRUE; every comparison with   *)
(* NaN is FALSE, as in Python.                                             *)
(*                                                                         *)
(* What the libraries outside the repository decide (whether a file can    *)
(* be read, whether the SARIMAX fit raises, which numbers it forecasts) is *)
(* a nondeterministic choice.                                              *)
(***************************************************************************)
EXTENDS Integers, Sequences, FiniteSets, TLC

\* ---------------------------------------------------------------- bounds
\* rows of the two input files together
MaxRows == 4
\* months and largest monthly usage of the series the variability is read from
MaxCvMonths == 3
MaxKredit == 5
\* months and largest monthly quantity of the series the correlation is read from
MaxCorrMonths == 4
MaxCorrQty == 3

\* ------------------------------------------------------ program constants
\* sarima_forecast(data, periods=12)
periods == 12
\* pd.date_range(start='2025-01-01', periods=12, freq='M')
DateRangePeriods == 12
DateRangeStartYear == 2025
DateRangeStartMonth == 1
\* df_prod['tanggal'].dt.year < 2000, + pd.DateOffset(years=100)
CenturyThreshold == 2000
CenturyOffset == 100
\* cv = (std / mean) * 100
CvScale == 100
\* cv < 15 / cv < 25 in the interpretation lines, cv > 25 for st.warning
CvStable == 15
CvModerate == 25
CvWarning == 25
\* production_correlation > 0.8 / > 0.6, in tenths
CorrStrongTenths == 8
CorrModerateTenths == 6
\* "Reorder Point: 15,000 kg", "Kuantitas Pemesanan: 40,000 kg"
ReorderPoint == 15000
OrderQuantity == 40000
\* Safety Stock = lower_bound.mean() * 0.2, in tenths
SafetyTenths == 2

\* ------------------------------------------------------------ input sets
Date(y, m) == [y |-> y, m |-> m]

\* months the ledger file may hold a row of
LedgerDates == {Date(2024, 11), Date(2024, 12), Date(2025, 1)}
\* a production row parsed with '%d/%m/%y' may also land before 2000
ProdDates == LedgerDates \cup {Date(1999, 12)}

ZincRow(d, debet, kredit) == [tanggal |-> d, debet |-> debet, kredit |-> kredit]
ProdRow(d, s1, s2, s3) ==
    [tanggal |-> d, kg_shift1 |-> s1, kg_shift2 |-> s2, kg_shift3 |-> s3]

ZincRows == {ZincRow(d, q[1], q[2]) : d \in LedgerDates, q \in {<<2, 1>>, <<0, 3>>}}
ProdRows == {ProdRow(d, 1, 2, 4) : d \in ProdDates}

SeqsUpTo(S, n) == UNION {[1..k -> S] : k \in 0..n}

\* ------------------------------------------------------------ None / frames
None == [none |-> TRUE, rows |-> <<>>]
Frame(rows) == [none |-> FALSE, rows |-> rows]

\* ------------------------------------------------------------ periods
\* Series.dt.to_period('M'): the ordinal of the calendar month
ToPeriod(d) == d.y * 12 + (d.m - 1)

Digits == <<"0", "1", "2", "3", "4", "5", "6", "7", "8", "9">>
Char(d) == Digits[d + 1]
DigitVal(c) == CHOOSE d \in 0..9 : Digits[d + 1] = c

\* Period('2024-11', 'M') as str: 'YYYY-MM'
PeriodStr(p) ==
    LET y == p \div 12
        m == (p % 12) + 1
    IN  <<Char(y \div 1000), Char((y \div 100) % 10), Char((y \div 10) % 10),
          Char(y % 10), "-", Char(m \div 10), Char(m % 10)>>

\* pd.to_datetime('YYYY-MM'): back to the month
ParsePeriod(s) ==
    (DigitVal(s[1]) * 1000 + DigitVal(s[2]) * 100 + DigitVal(s[3]) * 10 + DigitVal(s[4])) * 12
        + (DigitVal(s[6]) * 10 + DigitVal(s[7])) - 1

\* ------------------------------------------------------------ load_data
\* mask = year < 2000; tanggal[mask] += DateOffset(years=100)
NormalizeDate(d) ==
    IF d.y < CenturyThreshold THEN Date(d.y + CenturyOffset, d.m) ELSE d

NormalizeDates(rows) ==
    [i \in DOMAIN rows |-> [rows[i] EXCEPT !.tanggal = NormalizeDate(rows[i].tanggal)]]

\* load_data(): both frames, or (None, None) when reading or parsing raises
LoadData(zf, pf, readable) ==
    IF readable
    THEN [zinc |-> Frame(zf), prod |-> Frame(NormalizeDates(pf))]
    ELSE [zinc |-> None, prod |-> None]

\* ------------------------------------------------------------ calculate_monthly_data
RECURSIVE SortAsc(_)
SortAsc(S) ==
    IF S = {} THEN <<>>
    ELSE LET lo == CHOOSE x \in S : \A y \in S : x <= y
         IN  <<lo>> \o SortAsc(S \ {lo})

RECURSIVE FirstSeen(_)
FirstSeen(ks) ==
    IF ks = <<>> THEN <<>>
    ELSE LET rest == FirstSeen(SubSeq(ks, 1, Len(ks) - 1))
             k == ks[Len(ks)]
         IN  IF \E i \in DOMAIN rest : rest[i] = k THEN rest ELSE Append(rest, k)

\* the group keys of groupby(..., sort=False): in the order the rows bring them
GroupKeysUnsorted(rows) ==
    FirstSeen([i \in DOMAIN rows |-> ToPeriod(rows[i].tanggal)])

\* the group keys of df.groupby(df['tanggal'].dt.to_period('M')): sorted
GroupKeys(rows) ==
    SortAsc({ToPeriod(rows[i].tanggal) : i \in DOMAIN rows})

RECURSIVE GroupSumByMonthNumber(_, _, _)
\* the groups taken by month of the year (dt.month) instead of by period
GroupSumByMonthNumber(rows, key, col) ==
    IF rows = <<>> THEN 0
    ELSE (IF Head(rows).tanggal.m = (key % 12) + 1 THEN Head(rows)[col] ELSE 0)
         + GroupSumByMonthNumber(Tail(rows), key, col)

RECURSIVE GroupSum(_, _, _)
\* .agg({col: 'sum'}) for one group
GroupSum(rows, key, col) ==
    IF rows = <<>> THEN 0
    ELSE (IF ToPeriod(Head(rows).tanggal) = key THEN Head(rows)[col] ELSE 0)
         + GroupSum(Tail(rows), key, col)

MonthlyZinc(rows) ==
    LET ks == GroupKeys(rows)
    IN  [i \in 1..Len(ks) |->
            [tanggal |-> ks[i],
             debet |-> GroupSum(rows, ks[i], "debet"),
             kredit |-> GroupSum(rows, ks[i], "kredit")]]

MonthlyProd(rows) ==
    LET ks == GroupKeys(rows)
    IN  [i \in 1..Len(ks) |->
            [tanggal |-> ks[i],
             total_production |-> GroupSum(rows, ks[i], "kg_shift1")
                                + GroupSum(rows, ks[i], "kg_shift2")
                                + GroupSum(rows, ks[i], "kg_shift3")]]

ProductionOf(right, key) ==
    IF \E j \in DOMAIN right : right[j].tanggal = key
    THEN right[CHOOSE j \in DOMAIN right : right[j].tanggal = key].total_production
    ELSE 0

\* pd.merge(..., how='left'): every ledger month is kept
MergeLeft(left, right) ==
    [i \in DOMAIN left |->
        [tanggal |-> left[i].tanggal, debet |-> left[i].debet, kredit |-> left[i].kredit,
         total_production |-> ProductionOf(right, left[i].tanggal)]]

\* pd.merge(monthly_zinc, monthly_prod, on='tanggal', how='inner'): the rows of
\* the left frame, in its order, whose key the right frame has
Merge(left, right) ==
    LET InRight(r) == \E j \in DOMAIN right : right[j].tanggal = r.tanggal
        kept == SelectSeq(left, InRight)
    IN  [i \in DOMAIN kept |->
            [tanggal |-> kept[i].tanggal, debet |-> kept[i].debet, kredit |-> kept[i].kredit,
             total_production |-> ProductionOf(right, kept[i].tanggal)]]

\* monthly_data['tanggal'].astype(str)
AsStr(rows) ==
    [i \in DOMAIN rows |-> [rows[i] EXCEPT !.tanggal = PeriodStr(rows[i].tanggal)]]

\* calculate_monthly_data(df_zinc, df_prod): the merged frame, or None when
\* anything raises (a None argument, a missing column)
calculate_monthly_data(z, p, columns_ok) ==
    IF z.none \/ p.none \/ ~columns_ok
    THEN None
    ELSE Frame(AsStr(Merge(MonthlyZinc(z.rows), MonthlyProd(p.rows))))

\* ------------------------------------------------------------ statistics
RECURSIVE Sum(_)
Sum(xs) == IF xs = <<>> THEN 0 ELSE Head(xs) + Sum(Tail(xs))

Column(rows, col) == [i \in DOMAIN rows |-> rows[i][col]]
Products(xs, ys) == [i \in DOMAIN xs |-> xs[i] * ys[i]]

NaN == [nan |-> TRUE, sqnum |-> 0, sqden |-> 1]

\* avg = kredit.mean(); std = kredit.std() (sample, ddof=1); cv = (std / avg) * 100.
\* The square of cv is sqnum / sqden.  NaN: fewer than two months (std is NaN,
\* the mean of no month is NaN) or a zero mean (0 / 0).
BasicMetrics(xs) ==
    LET n == Len(xs)
        s == Sum(xs)
        q == Sum(Products(xs, xs))
    IN  IF n < 2 \/ s = 0
        THEN NaN
        ELSE [nan |-> FALSE,
              sqnum |-> CvScale * CvScale * n * (n * q - s * s),
              sqden |-> (n - 1) * s * s]

\* cv < k and cv > k on floats: FALSE for NaN
FloatLt(v, k) == ~v.nan /\ v.sqnum < k * k * v.sqden
FloatGt(v, k) == ~v.nan /\ v.sqnum > k * k * v.sqden

NaNCorr == [nan |-> TRUE, cov |-> 0, vv |-> 1]

\* monthly_data['kredit'].corr(monthly_data['total_production']): Pearson,
\* cov / sqrt(vv); NaN for fewer than two months or a constant series
Corr(xs, ys) ==
    LET n == Len(xs)
        vx == n * Sum(Products(xs, xs)) - Sum(xs) * Sum(xs)
        vy == n * Sum(Products(ys, ys)) - Sum(ys) * Sum(ys)
    IN  IF n < 2 \/ vx = 0 \/ vy = 0
        THEN NaNCorr
        ELSE [nan |-> FALSE, cov |-> n * Sum(Products(xs, ys)) - Sum(xs) * Sum(ys),
              vv |-> vx * vy]

\* production_correlation > t / 10 on floats: FALSE for NaN
CorrGt(r, tenths) ==
    ~r.nan /\ r.cov > 0 /\ 100 * r.cov * r.cov > tenths * tenths * r.vv

\* kredit / total_production * 100 per month (tab1a): x / 0 is inf, 0 / 0 is NaN
UsagePercentage(rows) ==
    [i \in DOMAIN rows |->
        IF rows[i].total_production = 0
        THEN [kind |-> IF rows[i].kredit = 0 THEN "nan" ELSE "inf", num |-> 0, den |-> 1]
        ELSE [kind |-> "num", num |-> rows[i].kredit * CvScale,
              den |-> rows[i].total_production]]

\* ------------------------------------------------------------ interpretation (tab4)
CvLabel(v) ==
    IF FloatLt(v, CvStable) THEN "Konsumsi zinc stabil"
    ELSE IF FloatLt(v, CvModerate) THEN "Konsumsi zinc cukup variabel"
    ELSE "Konsumsi zinc sangat variabel"

CvAdvice(v) ==
    IF FloatLt(v, CvStable) THEN "Pertahankan pola konsumsi saat ini"
    ELSE IF FloatLt(v, CvModerate) THEN "Evaluasi variabilitas konsumsi"
    ELSE "Perlu standardisasi proses"

\* production_correlation >= t / 10
CorrGe(r, tenths) ==
    ~r.nan /\ r.cov >= 0 /\ 100 * r.cov * r.cov >= tenths * tenths * r.vv

\* the bands with the lower end of each taken in
CorrLabelInclusive(r) ==
    IF CorrGt(r, CorrStrongTenths) THEN "Korelasi sangat baik dengan produksi"
    ELSE IF CorrGe(r, CorrModerateTenths) THEN "Korelasi cukup baik dengan produksi"
    ELSE "Perlu evaluasi korelasi dengan produksi"

CorrLabel(r) ==
    IF CorrGt(r, CorrStrongTenths) THEN "Korelasi sangat baik dengan produksi"
    ELSE IF CorrGt(r, CorrModerateTenths) THEN "Korelasi cukup baik dengan produksi"
    ELSE "Perlu evaluasi korelasi dengan produksi"

CorrAdvice(r) ==
    IF CorrGt(r, CorrStrongTenths) THEN "Monitor dan pertahankan korelasi"
    ELSE IF CorrGt(r, CorrModerateTenths) THEN "Tingkatkan korelasi dengan produksi"
    ELSE "Evaluasi pola konsumsi vs produksi"

\* if cv > 25: st.warning(...)
VariabilityWarning(v) == FloatGt(v, CvWarning)

NoInterpretation ==
    [shown |-> FALSE, corr |-> NaNCorr, cv_label |-> "", corr_label |-> "",
     cv_advice |-> "", corr_advice |-> "", warning |-> FALSE]

Interpretation(v, rows) ==
    LET r == Corr(Column(rows, "kredit"), Column(rows, "total_production"))
    IN  [shown |-> TRUE, corr |-> r, cv_label |-> CvLabel(v), corr_label |-> CorrLabel(r),
         cv_advice |-> CvAdvice(v), corr_advice |-> CorrAdvice(r),
         warning |-> VariabilityWarning(v)]

\* ------------------------------------------------------------ sarima_forecast
\* What SARIMAX(...).fit() can do: raise, or give a forecast whose interval is
\* the point forecast minus and plus a width that grows with the step.
FitOutcomes ==
    {[ok |-> FALSE, level |-> 0, spread |-> 0]}
        \cup {[ok |-> TRUE, level |-> l, spread |-> w] : l \in {5, 8}, w \in {0, 2}}

\* results.forecast(steps)
ResultsForecast(o, steps) == [i \in 1..steps |-> o.level + (i % 3)]

\* results.get_forecast(steps).conf_int(): the columns 'lower kredit', 'upper kredit'
ResultsConfInt(o, steps) ==
    [i \in 1..steps |->
        <<ResultsForecast(o, steps)[i] - o.spread * i,
          ResultsForecast(o, steps)[i] + o.spread * i>>]

\* a failure that hands back the point forecast without its interval
sarima_forecast_partial(data, o) ==
    [forecast |-> Frame(ResultsForecast(o, periods)),
     conf_int |-> IF o.ok THEN Frame(ResultsConfInt(o, periods)) ELSE None]

\* sarima_forecast(data, periods=12): (forecast, conf_int), or (None, None) when
\* building, fitting or forecasting raises
sarima_forecast(data, o) ==
    IF o.ok
    THEN [forecast |-> Frame(ResultsForecast(o, periods)),
          conf_int |-> Frame(ResultsConfInt(o, periods))]
    ELSE [forecast |-> None, conf_int |-> None]

\* kredit_series = monthly_data.set_index('tanggal')['kredit']
kredit_series(rows) ==
    [i \in DOMAIN rows |-> [tanggal |-> rows[i].tanggal, kredit |-> rows[i].kredit]]

\* ------------------------------------------------------------ main: forecast_df
FromPeriod(p) == Date(p \div 12, (p % 12) + 1)

\* the frame with lower and upper bound exchanged
ForecastDfSwapped(f, ci) ==
    [i \in 1..DateRangePeriods |->
        [tanggal |-> FromPeriod(ToPeriod(Date(DateRangeStartYear, DateRangeStartMonth)) + i - 1),
         forecast |-> f[i], lower_bound |-> ci[i][2], upper_bound |-> ci[i][1]]]

\* pd.DataFrame({'tanggal': pd.date_range(start='2025-01-01', periods=12, freq='M'),
\*               'forecast': forecast, 'lower_bound': conf_int.iloc[:, 0],
\*               'upper_bound': conf_int.iloc[:, 1]}); the i-th month end of the
\* range lies in the month 2025-01 + (i - 1)
ForecastDf(f, ci) ==
    [i \in 1..DateRangePeriods |->
        [tanggal |-> FromPeriod(ToPeriod(Date(DateRangeStartYear, DateRangeStartMonth)) + i - 1),
         forecast |-> f[i], lower_bound |-> ci[i][1], upper_bound |-> ci[i][2]]]

\* forecast_df['tanggal'].dt.strftime('%Y-%m')
ForecastLabels(df) == [i \in DOMAIN df |-> PeriodStr(ToPeriod(df[i].tanggal))]

\* ------------------------------------------------------------ main: recommendation
Mean(xs) == [num |-> Sum(xs), den |-> Len(xs)]
TimesTenths(x, t) == [num |-> x.num * t, den |-> x.den * 10]

NoRecommendation ==
    [shown |-> FALSE, min_level |-> Mean(<<0>>), optimal_level |-> Mean(<<0>>),
     max_level |-> Mean(<<0>>), reorder_point |-> 0, order_quantity |-> 0,
     safety_stock |-> Mean(<<0>>)]

\* the recommendation with the safety stock taken from the optimal level
RecommendationFromOptimal(df) ==
    [shown |-> TRUE,
     min_level |-> Mean(Column(df, "lower_bound")),
     optimal_level |-> Mean(Column(df, "forecast")),
     max_level |-> Mean(Column(df, "upper_bound")),
     reorder_point |-> ReorderPoint,
     order_quantity |-> OrderQuantity,
     safety_stock |-> TimesTenths(Mean(Column(df, "forecast")), SafetyTenths)]

\* tab4: Stok Minimal / Optimal / Maksimal, Reorder Point, Kuantitas Pemesanan,
\* Safety Stock
Recommendation(df) ==
    [shown |-> TRUE,
     min_level |-> Mean(Column(df, "lower_bound")),
     optimal_level |-> Mean(Column(df, "forecast")),
     max_level |-> Mean(Column(df, "upper_bound")),
     reorder_point |-> ReorderPoint,
     order_quantity |-> OrderQuantity,
     safety_stock |-> TimesTenths(Mean(Column(df, "lower_bound")), SafetyTenths)]

\* ------------------------------------------------------------ main: the guards
LoadFailedIgnored(z, p) == FALSE

\* if df_zinc is None or df_prod is None: return
LoadFailed(z, p) == z.none \/ p.none

\* if monthly_data is None: return
AggregationFailed(m) == m.none

\* if forecast is not None and conf_int is not None:
HasForecast(f, ci) == ~f.none /\ ~ci.none

\* ------------------------------------------------------------ state
VARIABLES
    zinc_file,     \* rows of 'data dmmy mutasi gudang.xlsx'
    prod_file,     \* rows of 'dmmy produksi galvaniz.xlsx', dates as parsed
    pc,            \* where main() is
    df_zinc,       \* main's locals; None until assigned
    df_prod,
    monthly_data,
    cv,
    usage,         \* the usage percentage series of tab1a
    forecast,
    conf_int,
    forecast_df,
    rec,           \* the stock recommendation written in tab4
    interp,        \* the interpretation and advice lines written in tab4
    shown,         \* what has been displayed
    run            \* which functions were called, which failed, which got a None

vars == <<zinc_file, prod_file, pc, df_zinc, df_prod, monthly_data, cv, usage,
          forecast, conf_int, forecast_df, rec, interp, shown, run>>

Locals ==
    /\ pc = "load"
    /\ df_zinc = None
    /\ df_prod = None
    /\ monthly_data = None
    /\ cv = NaN
    /\ usage = <<>>
    /\ forecast = None
    /\ conf_int = None
    /\ forecast_df = <<>>
    /\ rec = NoRecommendation
    /\ interp = NoInterpretation
    /\ shown = {}
    /\ run = [called |-> {}, failed |-> {}, got_none |-> {}]

\* any rows, in any order, MaxRows of them over the two files
Init ==
    /\ zinc_file \in SeqsUpTo(ZincRows, MaxRows)
    /\ prod_file \in SeqsUpTo(ProdRows, MaxRows - Len(zinc_file))
    /\ Locals

\* the n months from 2024-01 on
SeriesDate(i) == FromPeriod(ToPeriod(Date(2024, 1)) + i - 1)

\* one ledger row and one production row a month: any usage per month
InitCv ==
    /\ \E n \in 1..MaxCvMonths :
        \E ks \in [1..n -> 0..MaxKredit] :
            /\ zinc_file = [i \in 1..n |-> ZincRow(SeriesDate(i), 0, ks[i])]
            /\ prod_file = [i \in 1..n |-> ProdRow(SeriesDate(i), 1, 2, 4)]
    /\ Locals

\* one ledger row and one production row a month: the months in the order of
\* their usage, no two alike, any production per month
InitCorr ==
    /\ \E n \in 2..MaxCorrMonths :
        \E ks \in [1..n -> 0..MaxCorrQty], ps \in [1..n -> 0..MaxCorrQty] :
            /\ \A i \in 1..(n - 1) : ks[i] < ks[i + 1]
            /\ zinc_file = [i \in 1..n |-> ZincRow(SeriesDate(i), 0, ks[i])]
            /\ prod_file = [i \in 1..n |-> ProdRow(SeriesDate(i), ps[i], 0, 0)]
    /\ Locals

Called(r, f, none_arg, fails) ==
    [called |-> r.called \cup {f},
     failed |-> IF fails THEN r.failed \cup {f} ELSE r.failed,
     got_none |-> IF none_arg THEN r.got_none \cup {f} ELSE r.got_none]

\* except Exception as e: st.error("Terjadi kesalahan dalam aplikasi"); main ends
Raised(seen) == seen \cup {"main: Terjadi kesalahan dalam aplikasi"}

\* df_zinc, df_prod = load_data(); return when either is None
Load ==
    /\ pc = "load"
    /\ \E readable \in BOOLEAN :
        LET r == LoadData(zinc_file, prod_file, readable)
        IN  /\ df_zinc' = r.zinc
            /\ df_prod' = r.prod
            /\ run' = Called(run, "load_data", FALSE, ~readable)
            /\ shown' = shown
                  \cup (IF readable THEN {} ELSE {"load_data: Error loading data"})
                  \cup (IF LoadFailed(r.zinc, r.prod)
                        THEN {"main: Failed to load data"} ELSE {})
            /\ pc' = IF LoadFailed(r.zinc, r.prod) THEN "done" ELSE "aggregate"
    /\ UNCHANGED <<zinc_file, prod_file, monthly_data, cv, usage, forecast, conf_int,
                   forecast_df, rec, interp>>

\* monthly_data = calculate_monthly_data(df_zinc, df_prod); return when None
Aggregate ==
    /\ pc = "aggregate"
    /\ \E columns_ok \in BOOLEAN :
        LET m == calculate_monthly_data(df_zinc, df_prod, columns_ok)
        IN  /\ monthly_data' = m
            /\ run' = Called(run, "calculate_monthly_data", df_zinc.none \/ df_prod.none,
                             m.none)
            /\ shown' = shown
                  \cup (IF m.none
                        THEN {"calculate_monthly_data: Error calculating monthly data"}
                        ELSE {})
                  \cup (IF AggregationFailed(m)
                        THEN {"main: Failed to process monthly data"} ELSE {})
            /\ pc' = IF AggregationFailed(m) THEN "done" ELSE "metrics"
    /\ UNCHANGED <<zinc_file, prod_file, df_zinc, df_prod, cv, usage, forecast, conf_int,
                   forecast_df, rec, interp>>

\* avg_monthly_kredit, std_dev_kredit, cv; st.tabs; tab0 (static text)
Metrics ==
    /\ pc = "metrics"
    /\ run' = Called(run, "statistics", monthly_data.none, monthly_data.none)
    /\ IF monthly_data.none
       THEN /\ shown' = Raised(shown)
            /\ pc' = "done"
            /\ cv' = cv
       ELSE /\ cv' = BasicMetrics(Column(monthly_data.rows, "kredit"))
            /\ shown' = shown \cup {"tab0: Informasi Sistem"}
            /\ pc' = "tab1"
    /\ UNCHANGED <<zinc_file, prod_file, df_zinc, df_prod, monthly_data, usage, forecast,
                   conf_int, forecast_df, rec, interp>>

\* tab1: the three totals, then df_zinc['nobar'].iloc[0] (IndexError on an
\* empty ledger), then the time series plot
Tab1 ==
    /\ pc = "tab1"
    /\ IF df_zinc.rows = <<>>
       THEN /\ shown' = Raised(shown \cup {"tab1: totals"})
            /\ pc' = "done"
       ELSE /\ shown' = shown \cup {"tab1: totals", "tab1: Informasi Barang",
                                      "tab1: Grafik Mutasi Barang"}
            /\ pc' = "tab1a"
    /\ UNCHANGED <<zinc_file, prod_file, df_zinc, df_prod, monthly_data, cv, usage,
                   forecast, conf_int, forecast_df, rec, interp, run>>

\* tab1a: the usage percentage metrics, table, plots and statistics.  Whether
\* rendering the styled table (highlight_max) of a frame without rows raises is
\* the rendering library's choice.
Tab1a ==
    /\ pc = "tab1a"
    /\ usage' = UsagePercentage(monthly_data.rows)
    /\ \E renders \in (IF monthly_data.rows = <<>> THEN BOOLEAN ELSE {TRUE}) :
        IF renders
        THEN /\ shown' = shown \cup {"tab1a: metrics", "tab1a: table", "tab1a: plots",
                                       "tab1a: statistics"}
             /\ pc' = "tab2"
        ELSE /\ shown' = Raised(shown \cup {"tab1a: metrics"})
             /\ pc' = "done"
    /\ UNCHANGED <<zinc_file, prod_file, df_zinc, df_prod, monthly_data, cv, forecast,
                   conf_int, forecast_df, rec, interp, run>>

\* tab2: the three metrics, the monthly table, the box plot
Tab2 ==
    /\ pc = "tab2"
    /\ shown' = shown \cup {"tab2: metrics", "tab2: table", "tab2: plot"}
    /\ pc' = "tab3"
    /\ UNCHANGED <<zinc_file, prod_file, df_zinc, df_prod, monthly_data, cv, usage,
                   forecast, conf_int, forecast_df, rec, interp, run>>

\* tab3: forecast, conf_int = sarima_forecast(kredit_series); the frame, the plot
\* and the table when both are there.  pd.DataFrame raises when the date range
\* and the forecast differ in length.
Tab3 ==
    /\ pc = "tab3"
    /\ \E o \in FitOutcomes :
        LET r == sarima_forecast(kredit_series(monthly_data.rows), o)
        IN  /\ forecast' = r.forecast
            /\ conf_int' = r.conf_int
            /\ run' = Called(run, "sarima_forecast", monthly_data.none, ~o.ok)
            /\ IF HasForecast(r.forecast, r.conf_int)
               THEN IF Len(r.forecast.rows) # DateRangePeriods
                    THEN /\ forecast_df' = forecast_df
                         /\ shown' = Raised(shown)
                         /\ pc' = "done"
                    ELSE /\ forecast_df' = ForecastDf(r.forecast.rows, r.conf_int.rows)
                         /\ shown' = shown \cup {"tab3: plot", "tab3: table"}
                         /\ pc' = "tab4"
               ELSE /\ forecast_df' = forecast_df
                    /\ shown' = shown
                          \cup (IF o.ok THEN {} ELSE {"sarima_forecast: Error in forecasting"})
                    /\ pc' = "tab4"
    /\ UNCHANGED <<zinc_file, prod_file, df_zinc, df_prod, monthly_data, cv, usage, rec,
                   interp>>

\* tab4: the recommendation, the interpretation and the warning when both
\* forecast and conf_int are there; tab5 (static text); main ends
Tab4 ==
    /\ pc = "tab4"
    /\ IF HasForecast(forecast, conf_int)
       THEN /\ rec' = Recommendation(forecast_df)
            /\ interp' = Interpretation(cv, monthly_data.rows)
            /\ shown' = shown
                  \cup {"tab4: Level Stok Rekomendasi", "tab4: Pengaturan Reorder",
                        "tab4: Analisis Konsumsi", "tab5: Rumus dan Metodologi"}
                  \cup (IF VariabilityWarning(cv) THEN {"tab4: Perhatian"} ELSE {})
       ELSE /\ rec' = rec
            /\ interp' = interp
            /\ shown' = shown \cup {"tab5: Rumus dan Metodologi"}
    /\ pc' = "done"
    /\ UNCHANGED <<zinc_file, prod_file, df_zinc, df_prod, monthly_data, cv, usage,
                   forecast, conf_int, forecast_df, run>>

Next ==
    \/ Load
    \/ Aggregate
    \/ Metrics
    \/ Tab1
    \/ Tab1a
    \/ Tab2
    \/ Tab3
    \/ Tab4

Spec == Init /\ [][Next]_vars
SpecCv == InitCv /\ [][Next]_vars
SpecCorr == InitCorr /\ [][Next]_vars

\* ------------------------------------------------------------ properties
Finished == pc = "done"

ForecastViews == {"tab3: plot", "tab3: table"}
RecommendationViews ==
    {"tab4: Level Stok Rekomendasi", "tab4: Pengaturan Reorder", "tab4: Analisis Konsumsi",
     "tab4: Perhatian"}

\* C1: when sarima_forecast fails it returns (None, None), and that run displays
\* neither the forecast plot or table nor any stock recommendation.
C1_FailedFitShowsNothing ==
    "sarima_forecast" \in run.failed =>
        /\ forecast.none
        /\ conf_int.none
        /\ shown \cap (ForecastViews \cup RecommendationViews) = {}
        /\ ~rec.shown
        /\ ~interp.shown

C1_Witness ==
    /\ Finished
    /\ "sarima_forecast" \in run.failed
    /\ "tab5: Rumus dan Metodologi" \in shown

\* C2: a failed load_data is followed by no call of calculate_monthly_data, of the
\* statistics or of sarima_forecast; a failed calculate_monthly_data by no
\* statistics and no sarima_forecast; and no stage is ever handed a None.
C2_FailureShortCircuits ==
    /\ "load_data" \in run.failed =>
          run.called \cap {"calculate_monthly_data", "statistics", "sarima_forecast"} = {}
    /\ "calculate_monthly_data" \in run.failed =>
          run.called \cap {"statistics", "sarima_forecast"} = {}
    /\ run.got_none = {}

C2_Witness ==
    /\ Finished
    /\ run.failed = {"calculate_monthly_data"}
    /\ zinc_file # <<>>
    /\ prod_file # <<>>

\* the records of a frame dated in the month p
InMonth(rows, p) == {i \in DOMAIN rows : ToPeriod(rows[i].tanggal) = p}

RECURSIVE Total(_, _, _)
Total(rows, idx, col) ==
    IF idx = {} THEN 0
    ELSE LET i == CHOOSE j \in idx : TRUE
         IN  rows[i][col] + Total(rows, idx \ {i}, col)

RECURSIVE ShiftTotal(_, _)
ShiftTotal(rows, idx) ==
    IF idx = {} THEN 0
    ELSE LET i == CHOOSE j \in idx : TRUE
         IN  (rows[i].kg_shift1 + rows[i].kg_shift2 + rows[i].kg_shift3)
             + ShiftTotal(rows, idx \ {i})

\* C3: every month of the output of calculate_monthly_data carries the sum of
\* debet and the sum of kredit over exactly the ledger records of that month, and
\* the sum of the three shifts over the production records of that month.
C3_MonthlyTotals ==
    ~monthly_data.none =>
        \A i \in DOMAIN monthly_data.rows :
            LET row == monthly_data.rows[i]
                p == ParsePeriod(row.tanggal)
            IN  /\ row.debet = Total(df_zinc.rows, InMonth(df_zinc.rows, p), "debet")
                /\ row.kredit = Total(df_zinc.rows, InMonth(df_zinc.rows, p), "kredit")
                /\ row.total_production = ShiftTotal(df_prod.rows, InMonth(df_prod.rows, p))

\* a month of the output with two ledger records, next to a ledger record of
\* another month
C3_Witness ==
    /\ ~monthly_data.none
    /\ \E i \in DOMAIN monthly_data.rows :
          LET p == ParsePeriod(monthly_data.rows[i].tanggal)
          IN  /\ Cardinality(InMonth(df_zinc.rows, p)) >= 2
              /\ \E j \in DOMAIN df_zinc.rows : ToPeriod(df_zinc.rows[j].tanggal) # p

PeriodsOf(rows) == {ToPeriod(rows[i].tanggal) : i \in DOMAIN rows}
MonthlyPeriods == {ParsePeriod(monthly_data.rows[i].tanggal) : i \in DOMAIN monthly_data.rows}

\* C4: the merged series holds a period if and only if that month has at least
\* one ledger record and at least one production record.
C4_InnerJoin ==
    ~monthly_data.none =>
        MonthlyPeriods = PeriodsOf(df_zinc.rows) \cap PeriodsOf(df_prod.rows)

\* a month in both files, one only in the ledger, one only in the production file
C4_Witness ==
    /\ ~monthly_data.none
    /\ MonthlyPeriods # {}
    /\ PeriodsOf(df_zinc.rows) \ PeriodsOf(df_prod.rows) # {}
    /\ PeriodsOf(df_prod.rows) \ PeriodsOf(df_zinc.rows) # {}

\* C5: the periods of the output of calculate_monthly_data are strictly
\* increasing in time, whatever the order of the records.
C5_PeriodsIncreasing ==
    ~monthly_data.none =>
        \A i, j \in DOMAIN monthly_data.rows :
            i < j => ParsePeriod(monthly_data.rows[i].tanggal)
                        < ParsePeriod(monthly_data.rows[j].tanggal)

\* two output months across the turn of the year, from files that list the later
\* month first
C5_Witness ==
    /\ ~monthly_data.none
    /\ Len(monthly_data.rows) = 2
    /\ monthly_data.rows[1].tanggal = PeriodStr(ToPeriod(Date(2024, 12)))
    /\ monthly_data.rows[2].tanggal = PeriodStr(ToPeriod(Date(2025, 1)))
    /\ zinc_file[1].tanggal = Date(2025, 1)
    /\ prod_file[1].tanggal = Date(2025, 1)

\* the variability lines are on the screen and the coefficient is a number
CvShown == interp.shown /\ ~cv.nan
CvBelow(k) == cv.sqnum < k * k * cv.sqden
CvAbove(k) == cv.sqnum > k * k * cv.sqden
Stable == interp.cv_label = "Konsumsi zinc stabil"
ModeratelyVariable == interp.cv_label = "Konsumsi zinc cukup variabel"
HighlyVariable == interp.cv_label = "Konsumsi zinc sangat variabel"

\* C6: CV < 15 reads 'stable', 15 <= CV <= 25 'moderately variable', CV > 25
\* 'highly variable', and the warning is raised exactly when the label is
\* 'highly variable'.
C6_VariabilityBands ==
    CvShown =>
        /\ CvBelow(15) => Stable
        /\ (~CvBelow(15) /\ ~CvAbove(25)) => ModeratelyVariable
        /\ CvAbove(25) => HighlyVariable
        /\ interp.warning <=> HighlyVariable
        /\ ("tab4: Perhatian" \in shown) <=> HighlyVariable

\* the correlation as the fraction cov / sqrt(vv), against 4/5 and 3/5
CorrShown == interp.shown
CorrAbove(num, den) ==
    /\ ~interp.corr.nan
    /\ interp.corr.cov > 0
    /\ den * den * interp.corr.cov * interp.corr.cov > num * num * interp.corr.vv
CorrIs(num, den) ==
    /\ ~interp.corr.nan
    /\ interp.corr.cov > 0
    /\ den * den * interp.corr.cov * interp.corr.cov = num * num * interp.corr.vv
Strong ==
    /\ interp.corr_label = "Korelasi sangat baik dengan produksi"
    /\ interp.corr_advice = "Monitor dan pertahankan korelasi"
Moderate ==
    /\ interp.corr_label = "Korelasi cukup baik dengan produksi"
    /\ interp.corr_advice = "Tingkatkan korelasi dengan produksi"
NeedsReview ==
    /\ interp.corr_label = "Perlu evaluasi korelasi dengan produksi"
    /\ interp.corr_advice = "Evaluasi pola konsumsi vs produksi"

\* C7 as claimed: correlation > 0.8 reads 'strong', 0.6 <= correlation <= 0.8
\* 'moderate', anything else (an undefined correlation too) 'needs review', the
\* interpretation and the advice line in the same band.
C7_CorrelationBandsClaimed ==
    CorrShown =>
        /\ CorrAbove(4, 5) => Strong
        /\ (~CorrAbove(4, 5) /\ (CorrAbove(3, 5) \/ CorrIs(3, 5))) => Moderate
        /\ ~(CorrAbove(3, 5) \/ CorrIs(3, 5)) => NeedsReview

\* C7 amended: correlation > 0.8 reads 'strong', 0.6 < correlation <= 0.8
\* 'moderate', correlation <= 0.6 or undefined 'needs review', the
\* interpretation and the advice line in the same band.
C7_CorrelationBands ==
    CorrShown =>
        /\ CorrAbove(4, 5) => Strong
        /\ (~CorrAbove(4, 5) /\ CorrAbove(3, 5)) => Moderate
        /\ ~CorrAbove(3, 5) => NeedsReview

\* a correlation of exactly 0.6 on the screen
C7_Witness ==
    /\ CorrShown
    /\ CorrIs(3, 5)
    /\ NeedsReview

RECURSIVE SumOfBound(_, _)
SumOfBound(ci, k) == IF ci = <<>> THEN 0 ELSE Head(ci)[k] + SumOfBound(Tail(ci), k)

SameFraction(x, num, den) == x.num * den = num * x.den

C9_ForecastShape ==
    "tab3: table" \in shown =>
        /\ Len(forecast_df) = 12
        /\ \A i \in DOMAIN forecast_df :
              /\ forecast_df[i].lower_bound <= forecast_df[i].forecast
              /\ forecast_df[i].forecast <= forecast_df[i].upper_bound

\* a forecast on the screen whose bounds lie off the point estimate
C9_Witness ==
    /\ "tab3: table" \in shown
    /\ "sarima_forecast" \in run.called
    /\ "sarima_forecast" \notin run.failed
    /\ \E i \in DOMAIN forecast_df : forecast_df[i].lower_bound < forecast_df[i].upper_bound

\* C10: the periods of the forecast points are consecutive months, the first
\* of them the month after the last period of the monthly series.
C10_ForecastFollowsHistory ==
    ("tab3: table" \in shown /\ monthly_data.rows # <<>>) =>
        LET labels == ForecastLabels(forecast_df)
            last == monthly_data.rows[Len(monthly_data.rows)].tanggal
        IN  /\ ParsePeriod(labels[1]) = ParsePeriod(last) + 1
            /\ \A i \in 1..(Len(labels) - 1) :
                  ParsePeriod(labels[i + 1]) = ParsePeriod(labels[i]) + 1

\* the frames handed to calculate_monthly_data share no month
NoMonthlyPeriod ==
    /\ "calculate_monthly_data" \in run.called
    /\ ~df_zinc.none
    /\ ~df_prod.none
    /\ PeriodsOf(df_zinc.rows) \cap PeriodsOf(df_prod.rows) = {}

\* C11: when the input yields no monthly period (an empty ledger, or ledger and
\* production without a common month), calculate_monthly_data signals a failure
\* and main stops: no empty monthly series reaches the statistics or the forecast.
C11_EmptyAggregationFails ==
    NoMonthlyPeriod =>
        /\ monthly_data.none
        /\ "calculate_monthly_data" \in run.failed
        /\ run.called \cap {"statistics", "sarima_forecast"} = {}

\* sarima_forecast was called on a monthly series of 1 to 12 observations
ShortSeriesForecast ==
    /\ "sarima_forecast" \in run.called
    /\ ~monthly_data.none
    /\ Len(monthly_data.rows) >= 1
    /\ Len(monthly_data.rows) < 13

\* C12: on a monthly outflow series of fewer than 13 observations
\* sarima_forecast fails - it returns no forecast - and no forecast of such a
\* series is displayed.
C12_ShortSeriesFails ==
    ShortSeriesForecast =>
        /\ "sarima_forecast" \in run.failed
        /\ forecast.none
        /\ conf_int.none
        /\ shown \cap ForecastViews = {}

\* a month of the merged series without production
ZeroProduction ==
    /\ ~monthly_data.none
    /\ \E i \in DOMAIN monthly_data.rows : monthly_data.rows[i].total_production = 0

UsageViews == {"tab1a: metrics", "tab1a: table", "tab1a: plots", "tab1a: statistics"}

\* C13: when a month of the merged series has total_production zero, the usage
\* ratio is reported as a failure: no usage percentage value is computed from
\* the zero denominator and no usage statistic, table or chart is displayed.
C13_ZeroProductionFails ==
    ZeroProduction =>
        /\ \A i \in DOMAIN usage : usage[i].kind = "num"
        /\ shown \cap UsageViews = {}

\* the months of the series handed to sarima_forecast
SeriesMonths ==
    {ParsePeriod(kredit_series(monthly_data.rows)[i].tanggal) :
        i \in DOMAIN kredit_series(monthly_data.rows)}

LedgerMonths == PeriodsOf(df_zinc.rows)

\* C14: in a run that reaches the forecast, the outflow series handed to
\* sarima_forecast has exactly one value for each calendar month from the first
\* to the last ledger month - no month without a ledger record and no month
\* dropped by the inner join is missing (stated for a series that is not empty).
C14_SeriesWithoutGaps ==
    ("sarima_forecast" \in run.called /\ SeriesMonths # {}) =>
        /\ \A p \in LedgerMonths, q \in LedgerMonths :
              \A k \in p..q : k \in SeriesMonths
        /\ Len(kredit_series(monthly_data.rows)) = Cardinality(SeriesMonths)

====
